---------------------------- MODULE Spec2Model ----------------------------
(***************************************************************************)
(* Mechanism Y: the micro-batch pattern-detection job.                     *)
(*                                                                         *)
(* A Structured Streaming query reads one chunk file per trigger           *)
(* (maxFilesPerTrigger = 1), hands it to process_batch through             *)
(* foreachBatch, and records the batch in the checkpoint's commit log      *)
(* once process_batch has returned.  process_batch increments the          *)
(* per-merchant counters kept in PostgreSQL, reads them back into a        *)
(* snapshot, evaluates the three patterns and writes the detections.       *)
(*                                                                         *)
(* A chunk is a bag of rows: a function from the distinct rows             *)
(* [customer, merchant, gender, amount] to the number of times the row     *)
(* occurs in the file.  Amounts are whole rupees, which FloatType and the  *)
(* double average represent exactly.                                       *)
(***************************************************************************)
EXTENDS Integers, Sequences, FiniteSets, TLC

VARIABLES
    df_customer_importance,   \* rows of CustomerImportance.csv, in file order
    bottom_1_percentile_weight_threshold,  \* frozen at startup
    top_1_percentile_weight_threshold,     \* frozen at startup
    chunks,                   \* files under INPUT_CHUNKS_S3_PATH, oldest first
    merchant_counts,          \* table merchant_transaction_counts: merchant -> total
    offsetLog,                \* checkpoint: batch id -> index of the chunk planned for it
    commitLog,                \* checkpoint: batch ids recorded as committed
    queryState,               \* "active" | "terminated"
    faults,                   \* failures so far: store errors, exceptions, crashes
    pc,                       \* position of the running process_batch call
    batch_id,                 \* batch_id argument of the running call
    current_df,               \* current_df argument of the running call
    pending,                  \* rows of merchant_counts_pd still to upsert
    calls,                    \* upsert calls issued by this call, in order
    toRead,                   \* distinct merchants still to look up
    reads,                    \* get_merchant_total_transactions calls of this call
    merchant_total_txns_map,  \* the broadcast snapshot
    final_detections,         \* merged detections of this call
    units,                    \* partitions of final_detections not yet written
    file_uuid,                \* folder token of this call
    num_rows,                 \* final_detections.count() of this call
    y_start_time_ist,         \* clock reading at the start of this call
    detection_time_ist_str,   \* clock reading at the merge of this call
    output,                   \* files under OUTPUT_DETECTIONS_S3_PATH
    total_rows,               \* Mechanism X: len(pdf_transactions)
    last_processed_row,       \* Mechanism X: the loop's row index
    chunk_counter,            \* Mechanism X: the loop's chunk counter
    chunk_writes,             \* Mechanism X: chunk files written, in order
    x_pc,                     \* Mechanism X: position in the main loop
    hist                      \* history: what each attempt did (for the properties)

vars == << df_customer_importance, bottom_1_percentile_weight_threshold,
           top_1_percentile_weight_threshold, chunks, merchant_counts, offsetLog, commitLog, queryState, faults, pc,
           batch_id, current_df, pending, calls, toRead, reads,
           merchant_total_txns_map, final_detections, units, file_uuid,
           num_rows, y_start_time_ist, detection_time_ist_str, output,
           total_rows, last_processed_row, chunk_counter, chunk_writes, x_pc,
           hist >>

-----------------------------------------------------------------------------
(* Bounds of the model: the number of chunk files in the input folder, and  *)
(* the number of failures (failed store calls, exceptions leaving            *)
(* process_batch, deaths of the driver) in one behaviour.                    *)

MaxChunks == 2
MaxFaults == 1

(* The largest source of Mechanism X, in chunks. *)
MaxSourceChunks == 3

(* The largest number of merchants in one chunk. *)
MaxMerchants == 125

(* Program constants *)

PAT1_MERCHANT_TXN_THRESHOLD == 50000
PAT2_AVG_TXN_VALUE_THRESHOLD == 23
PAT2_MIN_TXN_COUNT == 80
DETECTION_BATCH_SIZE == 50
CHUNK_SIZE == 1000

-----------------------------------------------------------------------------
(* Values *)

(* A nullable value: << >> is null, << v >> is the value v. *)
NULL == << >>
Some(v) == << v >>

Customers == {"C1", "C2"}
Merchants == {"M1", "M2"}

(* The i-th merchant id: M1, M2, ... *)
BulkMerchant(i) == "M" \o ToString(i)

(* The i-th customer id: C1, C2, ...; 0 stands for no customer. *)
CustomerOf(i) == IF i = 0 THEN "" ELSE "C" \o ToString(i)

Row(c, m, g, a) == [customer |-> c, merchant |-> m, gender |-> g, amount |-> a]

ImportanceRow(c, m, w) == [customer_id |-> c, merchant_id |-> m, weight |-> w]

(* A chunk file with a header and no rows. *)
ChunkEmpty == << >>

(* 80 rows of one pair averaging 22. *)
ChunkLow80 == (Row("C1", "M1", "M", 22) :> 80)

(* 80 rows of one pair averaging exactly 23. *)
ChunkAt80 == (Row("C1", "M1", "F", 22) :> 40) @@ (Row("C1", "M1", "M", 24) :> 40)

(* 79 rows of one pair averaging 22, and one row of another merchant. *)
ChunkLow79 == (Row("C1", "M1", "M", 22) :> 79) @@ (Row("C2", "M2", "F", 22) :> 1)

ChunkPool == {ChunkEmpty, ChunkLow80, ChunkAt80, ChunkLow79}

(* Chunks that vary the gender column.  M1 has 10 male and 9 female rows,   *)
(* M2 has 10 of each.                                                        *)
ChunkGenderMix ==
    (Row("C1", "M1", "M", 30) :> 10) @@ (Row("C2", "M1", "F", 30) :> 9) @@
    (Row("C1", "M2", "M", 30) :> 10) @@ (Row("C2", "M2", "F", 30) :> 10)

(* M1 has 2 female rows, 1 male row and 5 rows of gender E; M2 has rows of   *)
(* gender U only.                                                            *)
ChunkGenderOther ==
    (Row("C1", "M1", "F", 30) :> 2) @@ (Row("C2", "M1", "M", 30) :> 1) @@
    (Row("C1", "M1", "E", 30) :> 5) @@ (Row("C1", "M2", "U", 30) :> 3)

(* M1 has 1 male row and 3 rows of gender E; M2 has 2 female rows, 2 male    *)
(* rows and 1 row of gender U.                                               *)
ChunkGenderEdge ==
    (Row("C1", "M1", "M", 30) :> 1) @@ (Row("C1", "M1", "E", 30) :> 3) @@
    (Row("C2", "M2", "F", 30) :> 2) @@ (Row("C2", "M2", "M", 30) :> 2) @@
    (Row("C1", "M2", "U", 30) :> 1)

DetectPool == ChunkPool \cup {ChunkGenderMix, ChunkGenderOther, ChunkGenderEdge}

(* Contents of CustomerImportance.csv the job may be started with. *)
ImportanceA == << ImportanceRow("C1", "M1", 1), ImportanceRow("C2", "M1", 2),
                  ImportanceRow("C2", "M2", 1) >>
ImportanceB == << ImportanceRow("C2", "M1", 3), ImportanceRow("C1", "M1", 5) >>
ImportancePool == {ImportanceA, ImportanceB}

(* A file of n rows whose weights are n, n-1, ..., 1 in file order; the      *)
(* pairs are (C1, M1), (C2, M1), (C1, M2), ... from the lightest up.         *)
ImportanceDesc(n) ==
    [i \in 1..n |->
        ImportanceRow(CustomerOf(((n - i) % 2) + 1), BulkMerchant(((n - i) \div 2) + 1),
                      n + 1 - i)]

ReferencePool ==
    {ImportanceA, ImportanceB, ImportanceDesc(1), ImportanceDesc(99),
     ImportanceDesc(100), ImportanceDesc(101), ImportanceDesc(200)}

(* Contents of merchant_transaction_counts left by earlier runs. *)
CountsNone == << >>
CountsNear == ("M1" :> 49920) @@ ("M2" :> 50000)
CountsPool == {CountsNone, CountsNear}

-----------------------------------------------------------------------------
(* Helpers over bags of rows *)

RECURSIVE RowCount(_, _)
RowCount(df, S) ==
    IF S = {} THEN 0
    ELSE LET r == CHOOSE x \in S : TRUE
         IN  df[r] + RowCount(df, S \ {r})

RECURSIVE AmountSum(_, _)
AmountSum(df, S) ==
    IF S = {} THEN 0
    ELSE LET r == CHOOSE x \in S : TRUE
         IN  df[r] * r.amount + AmountSum(df, S \ {r})

isEmpty(df) == DOMAIN df = {}

Max(S) == CHOOSE x \in S : \A y \in S : y <= x

-----------------------------------------------------------------------------
(* Reference data: the percentile cut point *)

Weights(imp) == [i \in 1..Len(imp) |-> imp[i].weight]

SortedWeights(imp) == SortSeq(Weights(imp), LAMBDA a, b : a < b)

(* Variant: customer_weights.sort() is missing. *)
BottomPercentile_Unsorted(imp) ==
    IF Len(imp) = 0 THEN 0
    ELSE Weights(imp)[(Len(imp) \div 100) + 1]

(* customer_weights[int(len(customer_weights) * 0.01)] if customer_weights else 0 *)
(* For the lengths of the model the float product truncates to len // 100.  *)
BottomPercentile(imp) ==
    IF Len(imp) = 0 THEN 0
    ELSE SortedWeights(imp)[(Len(imp) \div 100) + 1]

(* float('inf') *)
Infinity == << "inf" >>

(* customer_weights[int(len(customer_weights) * 0.99)] if customer_weights   *)
(* else float('inf').  The float product truncates to (99 * len) // 100.     *)
TopPercentile(imp) ==
    IF Len(imp) = 0 THEN Infinity
    ELSE SortedWeights(imp)[((99 * Len(imp)) \div 100) + 1]

-----------------------------------------------------------------------------
(* The counter store *)


(* Variant: ON CONFLICT ... SET total_transactions = EXCLUDED.total_transactions *)
UpsertRow_Overwrite(table, merchant_id, count_delta) ==
    IF merchant_id \in DOMAIN table
    THEN [table EXCEPT ![merchant_id] = count_delta]
    ELSE table @@ (merchant_id :> count_delta)

(* Variant: the increment of a batch that was tried before is not applied  *)
(* a second time.                                                           *)
UpsertRow_OncePerBatch(table, merchant_id, count_delta) ==
    IF batch_id \in DOMAIN hist.abandoned THEN table
    ELSE IF merchant_id \in DOMAIN table
         THEN [table EXCEPT ![merchant_id] = @ + count_delta]
         ELSE table @@ (merchant_id :> count_delta)

(* INSERT ... ON CONFLICT (merchant_id) DO UPDATE SET total = total + EXCLUDED.total *)
UpsertRow(table, merchant_id, count_delta) ==
    IF merchant_id \in DOMAIN table
    THEN [table EXCEPT ![merchant_id] = @ + count_delta]
    ELSE table @@ (merchant_id :> count_delta)


(* Variant: the lookup answers from the table as it was when the batch      *)
(* started, before the batch's increments.                                  *)
SelectTotal_Stale(table, merchant_id) ==
    IF merchant_id \in DOMAIN hist.pre THEN hist.pre[merchant_id] ELSE 0

(* SELECT total_transactions ... ; result[0] if result else 0 *)
SelectTotal(table, merchant_id) ==
    IF merchant_id \in DOMAIN table THEN table[merchant_id] ELSE 0

(* How a store call can end: the statement runs; the statement (or the      *)
(* commit) raises inside the try block after connection and cursor exist;   *)
(* or psycopg2.connect raises, so that neither conn nor cur is bound.       *)
StoreOutcomes == {"ok", "statement_error", "connect_error"}

(* upsert_merchant_counts: the table after the call and whether the call    *)
(* raised.  A statement error is caught and printed, the increment is lost.  *)
(* When connect raises, the finally block evaluates "if cur:" with cur never *)
(* bound in the function, and the UnboundLocalError leaves the function.     *)
upsert_merchant_counts(table, merchant_id, count_delta, outcome) ==
    CASE outcome = "ok" ->
            [table |-> UpsertRow(table, merchant_id, count_delta), raised |-> FALSE]
      [] outcome = "statement_error" ->
            [table |-> table, raised |-> FALSE]
      [] outcome = "connect_error" ->
            [table |-> table, raised |-> TRUE]

(* get_merchant_total_transactions: the value returned and whether the call  *)
(* raised.  "return 0" of the except block is overridden by the              *)
(* UnboundLocalError of the finally block when connect raised.               *)
get_merchant_total_transactions(table, merchant_id, outcome) ==
    CASE outcome = "ok" ->
            [value |-> SelectTotal(table, merchant_id), raised |-> FALSE]
      [] outcome = "statement_error" ->
            [value |-> 0, raised |-> FALSE]
      [] outcome = "connect_error" ->
            [value |-> 0, raised |-> TRUE]

-----------------------------------------------------------------------------
(* process_batch: the dataframes *)

Detection(p, a, c, m) ==
    [patternId |-> p, ActionType |-> a, customerName |-> c, MerchantId |-> m]


OfPattern(S, p) == {d \in S : d.patternId = p}

(* Variant: the aggregate counts the distinct rows of the merchant.         *)
merchant_counts_in_batch_Distinct(df) ==
    [m \in {r.merchant : r \in DOMAIN df} |->
        Cardinality({r \in DOMAIN df : r.merchant = m})]

(* groupBy("merchant").agg(count("*")): merchant -> batch_count *)
merchant_counts_in_batch(df) ==
    [m \in {r.merchant : r \in DOMAIN df} |->
        RowCount(df, {r \in DOMAIN df : r.merchant = m})]

(* select("merchant").distinct() *)
distinct_merchants_in_batch(df) == {r.merchant : r \in DOMAIN df}

(* Left join on (customer, merchant): a row with no match carries a null ci. *)
(* Multiplicities are dropped: the only use ends in distinct().              *)
transactions_with_importance(df, imp) ==
    {[t |-> x[1], ci |-> Some(imp[x[2]])] :
        x \in {x \in (DOMAIN df) \X (1..Len(imp)) :
                        /\ x[1].customer = imp[x[2]].customer_id
                        /\ x[1].merchant = imp[x[2]].merchant_id}}
    \cup
    {[t |-> r, ci |-> NULL] :
        r \in {x \in DOMAIN df :
                 \A i \in 1..Len(imp) :
                    ~ (x.customer = imp[i].customer_id /\ x.merchant = imp[i].merchant_id)}}

(* lambda m_id: merchant_total_txns_b.value.get(m_id, 0) *)
get_total_txns_udf(map, m_id) == IF m_id \in DOMAIN map THEN map[m_id] ELSE 0


(* Variant: total_merchant_txns >= PAT1_MERCHANT_TXN_THRESHOLD *)
pat1_detections_AtLeast(df, imp, bottom, map) ==
    {Detection("PatId1", "UPGRADE", j.t.customer, j.t.merchant) :
        j \in {x \in transactions_with_importance(df, imp) :
                 /\ x.ci # NULL
                 /\ x.ci[1].weight <= bottom
                 /\ get_total_txns_udf(map, x.t.merchant) >= PAT1_MERCHANT_TXN_THRESHOLD}}

pat1_detections(df, imp, bottom, map) ==
    {Detection("PatId1", "UPGRADE", j.t.customer, j.t.merchant) :
        j \in {x \in transactions_with_importance(df, imp) :
                 /\ x.ci # NULL
                 /\ x.ci[1].weight <= bottom
                 /\ get_total_txns_udf(map, x.t.merchant) > PAT1_MERCHANT_TXN_THRESHOLD}}

PairRows(df, c, m) == {r \in DOMAIN df : r.customer = c /\ r.merchant = m}


RECURSIVE PairCountUpTo(_, _, _)
PairCountUpTo(k, c, m) ==
    IF k = 0 THEN 0
    ELSE RowCount(chunks[k], PairRows(chunks[k], c, m)) + PairCountUpTo(k - 1, c, m)

RECURSIVE PairAmountUpTo(_, _, _)
PairAmountUpTo(k, c, m) ==
    IF k = 0 THEN 0
    ELSE AmountSum(chunks[k], PairRows(chunks[k], c, m)) + PairAmountUpTo(k - 1, c, m)

(* Variant: the pair's statistics are kept across batches (a stateful       *)
(* aggregation over all chunks up to the current one).                      *)
pat2_detections_Stateful(df) ==
    {Detection("PatId2", "CHILD", p[1], p[2]) :
        p \in {x \in {<<r.customer, r.merchant>> : r \in DOMAIN df} :
                 /\ PairAmountUpTo(batch_id + 1, x[1], x[2])
                       < PAT2_AVG_TXN_VALUE_THRESHOLD * PairCountUpTo(batch_id + 1, x[1], x[2])
                 /\ PairCountUpTo(batch_id + 1, x[1], x[2]) >= PAT2_MIN_TXN_COUNT}}

(* groupBy("customer", "merchant").agg(avg("amount"), count("*")).  The      *)
(* average sum/count is compared with the threshold as sum < 23 * count.     *)
pat2_detections(df) ==
    {Detection("PatId2", "CHILD", p[1], p[2]) :
        p \in {x \in {<<r.customer, r.merchant>> : r \in DOMAIN df} :
                 /\ AmountSum(df, PairRows(df, x[1], x[2]))
                       < PAT2_AVG_TXN_VALUE_THRESHOLD * RowCount(df, PairRows(df, x[1], x[2]))
                 /\ RowCount(df, PairRows(df, x[1], x[2])) >= PAT2_MIN_TXN_COUNT}}

GenderCount(df, m, g) == RowCount(df, {r \in DOMAIN df : r.merchant = m /\ r.gender = g})

(* Variant: no fillna(0); a comparison with a null count is not true.       *)
pat3_detections_NoFill(df) ==
    {Detection("PatId3", "DEI-NEEDED", "", m) :
        m \in {x \in {r.merchant : r \in {y \in DOMAIN df : y.gender \in {"M", "F"}}} :
                 /\ GenderCount(df, x, "F") > 0
                 /\ GenderCount(df, x, "F") < GenderCount(df, x, "M")}}

(* filter(gender in (M, F)).groupBy(merchant, gender).count(), pivoted on    *)
(* gender with fillna(0): a merchant with rows of one gender only gets 0 for *)
(* the other.                                                                *)
pat3_detections(df) ==
    {Detection("PatId3", "DEI-NEEDED", "", m) :
        m \in {x \in {r.merchant : r \in {y \in DOMAIN df : y.gender \in {"M", "F"}}} :
                 GenderCount(df, x, "F") < GenderCount(df, x, "M")}}

all_detections(df, imp, bottom, map) ==
    pat1_detections(df, imp, bottom, map) \cup pat2_detections(df) \cup pat3_detections(df)

(* The number of rows the select of PatId1 yields for one detection: one per *)
(* joined row of the pair that passes the filter.                            *)
pat1_selected(df, imp, bottom, d) ==
    Cardinality({x \in {<<r, k, i>> : r \in PairRows(df, d.customerName, d.MerchantId),
                                      k \in 1..Max({df[q] : q \in DOMAIN df}),
                                      i \in 1..Len(imp)} :
                    /\ x[2] <= df[x[1]]
                    /\ imp[x[3]].customer_id = d.customerName
                    /\ imp[x[3]].merchant_id = d.MerchantId
                    /\ imp[x[3]].weight <= bottom})

(* Variant: the select is not followed by distinct(). *)
distinct_Missing(n) == n

(* distinct(): equal rows are kept once. *)
distinct(n) == IF n > 0 THEN 1 ELSE 0

(* The rows of all_detections with the number of times each occurs: the     *)
(* rows of PatId1 after distinct(); one row per group for PatId2 and PatId3 *)
(* (distinct() after a groupBy finds nothing to drop); unionByName keeps    *)
(* every row of its three inputs.                                           *)
all_detections_rows(df, imp, bottom, map) ==
    [d \in all_detections(df, imp, bottom, map) |->
        IF d.patternId = "PatId1" THEN distinct(pat1_selected(df, imp, bottom, d))
        ELSE 1]

(* DataFrame.count() *)
count(rows) ==
    Cardinality(UNION {{<<d, i>> : i \in 1..rows[d]} : d \in DOMAIN rows})

(* get_current_ist_timestamp_str(): the k-th reading of the clock in the    *)
(* running call.                                                            *)
get_current_ist_timestamp_str(k) == Some([attempt |-> hist.attempts, read |-> k])

(* (num_rows + DETECTION_BATCH_SIZE - 1) // DETECTION_BATCH_SIZE, at least 1 *)
num_partitions(rows) ==
    LET n == (rows + DETECTION_BATCH_SIZE - 1) \div DETECTION_BATCH_SIZE
    IN  IF n < 1 THEN 1 ELSE n

PatternIds == {"PatId1", "PatId2", "PatId3"}

(* The rows of an upstream partition are dealt in a fixed order (they are    *)
(* sorted before a round-robin repartition): here by merchant and customer.  *)
AllPairs ==
    [k \in 1..(MaxMerchants * (Cardinality(Customers) + 1)) |->
        << BulkMerchant(((k - 1) \div (Cardinality(Customers) + 1)) + 1),
           CustomerOf((k - 1) % (Cardinality(Customers) + 1)) >>]

RowSeq(S) ==
    SelectSeq(AllPairs,
              LAMBDA pr : \E d \in S : d.MerchantId = pr[1] /\ d.customerName = pr[2])

(* Variant: every target partition takes the same number of rows and the    *)
(* rows left over are not dealt.                                            *)
deal_Truncated(S, n, start) ==
    LET q == RowSeq(S)
    IN  [u \in 1..n |->
            {d \in S : \E j \in 1..((Len(q) \div n) * n) :
                          /\ q[j] = << d.MerchantId, d.customerName >>
                          /\ ((start + j) % n) + 1 = u}]

(* Round-robin dealing of one upstream partition to n target partitions:    *)
(* the engine starts at a position that depends on the upstream partition   *)
(* and moves one target further with every row.                             *)
deal(S, n, start) ==
    LET q == RowSeq(S)
    IN  [u \in 1..n |->
            {d \in S : \E j \in 1..Len(q) :
                          /\ q[j] = << d.MerchantId, d.customerName >>
                          /\ ((start + j) % n) + 1 = u}]

(* final_detections.repartition(n): the upstream partitions are the three   *)
(* parts of the union, each dealt from its own start.                       *)
repartition(det, n, start) ==
    LET dealt == [p \in PatternIds |-> deal(OfPattern(det, p), n, start[p])]
    IN  [u \in 1..n |-> UNION {dealt[p][u] : p \in PatternIds}]

-----------------------------------------------------------------------------
(* The checkpoint of the streaming query *)


(* Variant: the query runs the newest planned batch again whether or not it *)
(* was committed.                                                           *)
NextBatchId_Replay == IF DOMAIN offsetLog = {} THEN 0 ELSE Max(DOMAIN offsetLog)

(* Variant: the query moves past every planned batch, committed or not.     *)
NextBatchId_Skip == Cardinality(DOMAIN offsetLog)

(* The batch the query runs next: the one after the last committed batch.   *)
NextBatchId == IF commitLog = {} THEN 0 ELSE Max(commitLog) + 1


(* Variant: the offsets logged for a planned batch are ignored and the      *)
(* batch is given the oldest file no batch was planned for.                 *)
PlannedChunk_Relist(b) == Cardinality(DOMAIN offsetLog) + 1

(* The chunk of the batch to run: the one the offset log planned for it, or *)
(* for a new batch the oldest file not yet planned (maxFilesPerTrigger = 1). *)
PlannedChunk(b) ==
    IF b \in DOMAIN offsetLog THEN offsetLog[b]
    ELSE Cardinality(DOMAIN offsetLog) + 1

-----------------------------------------------------------------------------
(* State *)

NoLocals ==
    /\ pending = << >>
    /\ calls = << >>
    /\ toRead = {}
    /\ reads = << >>
    /\ merchant_total_txns_map = << >>
    /\ final_detections = {}
    /\ units = {}
    /\ file_uuid = 0
    /\ num_rows = 0
    /\ y_start_time_ist = NULL
    /\ detection_time_ist_str = NULL

(* Mechanism X is a notebook of its own; it is not running. *)
NoIngestion ==
    /\ total_rows = 0
    /\ last_processed_row = 0
    /\ chunk_counter = 0
    /\ chunk_writes = << >>
    /\ x_pc = "off"

Init ==
    /\ NoIngestion
    /\ df_customer_importance \in ImportancePool
    /\ bottom_1_percentile_weight_threshold = BottomPercentile(df_customer_importance)
    /\ top_1_percentile_weight_threshold = TopPercentile(df_customer_importance)
    /\ chunks \in [1..MaxChunks -> ChunkPool]
    /\ merchant_counts \in CountsPool
    /\ offsetLog = << >>
    /\ commitLog = {}
    /\ queryState = "active"
    /\ faults = 0
    /\ pc = "waiting"
    /\ batch_id = 0
    /\ current_df = << >>
    /\ NoLocals
    /\ output = {}
    /\ hist = [attempts  |-> 0,
               invoked   |-> << >>,
               overrun   |-> FALSE,
               store_errors |-> 0,
               redone    |-> << >>,
               initial   |-> merchant_counts,
               pre       |-> merchant_counts,
               applied   |-> << >>,
               abandoned |-> << >>,
               committed |-> << >>]

reference == << df_customer_importance, bottom_1_percentile_weight_threshold,
               top_1_percentile_weight_threshold, chunks >>
checkpoint == << offsetLog, commitLog >>
ingestion == << total_rows, last_processed_row, chunk_counter, chunk_writes, x_pc >>
locals == << pending, calls, toRead, reads, merchant_total_txns_map,
             final_detections, units, file_uuid, num_rows, y_start_time_ist,
             detection_time_ist_str >>

(* Every store call of the running attempt succeeded. *)
CleanAttempt ==
    /\ \A i \in 1..Len(calls) : calls[i].outcome = "ok"
    /\ \A i \in 1..Len(reads) : reads[i].outcome = "ok"

(* The sum of the deltas of the calls for merchant m that took effect. *)
RECURSIVE AppliedBy(_, _)
AppliedBy(cs, m) ==
    IF cs = << >> THEN 0
    ELSE (IF Head(cs).merchant = m /\ Head(cs).outcome = "ok" THEN Head(cs).delta ELSE 0)
            + AppliedBy(Tail(cs), m)

(* History: the running attempt ends without a commit; cause is              *)
(* "store_error", "batch_error" (a detector step or the write) or "killed". *)
(* The increments it had applied stay in the table.                         *)
NoteAbandoned(cause) ==
    [hist EXCEPT !.abandoned =
        [b \in (DOMAIN @) \cup {batch_id} |->
            IF b = batch_id
            THEN [cause  |-> cause,
                  merged |-> pc \in {"write", "writing", "returned"},
                  det    |-> final_detections,
                  clean  |-> CleanAttempt /\ cause # "store_error",
                  input  |-> current_df]
            ELSE @[b]],
                 !.redone =
        [m \in (DOMAIN @) \cup {calls[i].merchant : i \in 1..Len(calls)} |->
            (IF m \in DOMAIN @ THEN @[m] ELSE 0) + AppliedBy(calls, m)]]

(* History: one more store call that failed. *)
NoteStoreError(h) == [h EXCEPT !.store_errors = @ + 1]

(* History: one more call of process_batch for batch b. *)
NoteInvoked(invoked, b) ==
    IF b \in DOMAIN invoked THEN [invoked EXCEPT ![b] = @ + 1]
    ELSE invoked @@ (b :> 1)

(* History: one more increment that took effect. *)
NoteApplied(h, m, d) ==
    [h EXCEPT !.applied =
        IF <<m, d>> \in DOMAIN @ THEN [@ EXCEPT ![<<m, d>>] = @ + 1]
        ELSE @ @@ (<<m, d>> :> 1)]

-----------------------------------------------------------------------------
(* The streaming query: trigger, commit, termination, restart *)

(* Variant: the trigger starts a call whenever its interval has elapsed,    *)
(* whether or not the previous call has returned.                           *)
Trigger_OnTimer ==
    /\ queryState = "active"
    /\ pc = "waiting" \/ hist.overrun
    /\ PlannedChunk(NextBatchId) <= Len(chunks)
    /\ offsetLog' = IF NextBatchId \in DOMAIN offsetLog THEN offsetLog
                    ELSE offsetLog @@ (NextBatchId :> PlannedChunk(NextBatchId))
    /\ batch_id' = NextBatchId
    /\ current_df' = chunks[PlannedChunk(NextBatchId)]
    /\ pc' = "start"
    /\ pending' = << >>
    /\ calls' = << >>
    /\ toRead' = {}
    /\ reads' = << >>
    /\ merchant_total_txns_map' = << >>
    /\ final_detections' = {}
    /\ units' = {}
    /\ file_uuid' = 0
    /\ num_rows' = 0
    /\ y_start_time_ist' = NULL
    /\ detection_time_ist_str' = NULL
    /\ hist' = [hist EXCEPT !.attempts = @ + 1,
                            !.invoked = NoteInvoked(@, NextBatchId),
                            !.overrun = FALSE,
                            !.pre = merchant_counts]
    /\ UNCHANGED << ingestion, reference, merchant_counts, commitLog, queryState, faults, output >>

(* A trigger fires with data available: the batch is planned in the offset  *)
(* log (or found there after a restart) and handed to process_batch.        *)
Trigger ==
    /\ queryState = "active"
    /\ pc = "waiting"
    /\ PlannedChunk(NextBatchId) <= Len(chunks)
    /\ offsetLog' = IF NextBatchId \in DOMAIN offsetLog THEN offsetLog
                    ELSE offsetLog @@ (NextBatchId :> PlannedChunk(NextBatchId))
    /\ batch_id' = NextBatchId
    /\ current_df' = chunks[PlannedChunk(NextBatchId)]
    /\ pc' = "start"
    /\ pending' = << >>
    /\ calls' = << >>
    /\ toRead' = {}
    /\ reads' = << >>
    /\ merchant_total_txns_map' = << >>
    /\ final_detections' = {}
    /\ units' = {}
    /\ file_uuid' = 0
    /\ num_rows' = 0
    /\ y_start_time_ist' = NULL
    /\ detection_time_ist_str' = NULL
    /\ hist' = [hist EXCEPT !.attempts = @ + 1,
                            !.invoked = NoteInvoked(@, NextBatchId),
                            !.overrun = FALSE,
                            !.pre = merchant_counts]
    /\ UNCHANGED << ingestion, reference, merchant_counts, commitLog, queryState, faults, output >>

(* The trigger interval (processingTime = 10 seconds) elapses while a call  *)
(* of process_batch is in progress.                                         *)
Tick ==
    /\ queryState = "active"
    /\ pc # "waiting"
    /\ ~ hist.overrun
    /\ hist' = [hist EXCEPT !.overrun = TRUE]
    /\ UNCHANGED << ingestion, reference, merchant_counts, checkpoint, queryState, faults, pc,
                    batch_id, current_df, locals, output >>

(* process_batch returned: the batch is recorded in the commit log. *)
Commit ==
    /\ queryState = "active"
    /\ pc = "returned"
    /\ commitLog' = commitLog \cup {batch_id}
    /\ pc' = "waiting"
    /\ hist' = [hist EXCEPT !.committed =
                  @ @@ (batch_id :> [token |-> file_uuid, rows |-> final_detections,
                                     input |-> current_df, overrun |-> hist.overrun])]
    /\ pending' = << >>
    /\ calls' = << >>
    /\ toRead' = {}
    /\ reads' = << >>
    /\ merchant_total_txns_map' = << >>
    /\ final_detections' = {}
    /\ units' = {}
    /\ file_uuid' = 0
    /\ num_rows' = 0
    /\ y_start_time_ist' = NULL
    /\ detection_time_ist_str' = NULL
    /\ UNCHANGED << ingestion, reference, merchant_counts, offsetLog, queryState, faults, batch_id, current_df, output >>

(* An exception leaves process_batch: the query terminates with it and       *)
(* awaitTermination raises.                                                  *)
Terminate(how, cause) ==
    /\ faults < MaxFaults
    /\ faults' = faults + 1
    /\ queryState' = "terminated"
    /\ pc' = how
    /\ hist' = NoteAbandoned(cause)

(* A detector step or the write raises. *)
Raise ==
    /\ queryState = "active"
    /\ pc \in {"detect", "write", "writing"}
    /\ Terminate("raised", "batch_error")
    /\ UNCHANGED << ingestion, reference, merchant_counts, checkpoint, batch_id,
                    current_df, locals, output >>

(* The driver process dies while a batch is in progress (between batches a   *)
(* stop changes neither the checkpoint nor the store).                       *)
Crash ==
    /\ queryState = "active"
    /\ pc # "waiting"
    /\ Terminate("killed", "killed")
    /\ UNCHANGED << ingestion, reference, merchant_counts, checkpoint, batch_id,
                    current_df, locals, output >>

(* The job is started again on the same checkpoint location. *)
Restart ==
    /\ queryState = "terminated"
    /\ queryState' = "active"
    /\ pc' = "waiting"
    /\ bottom_1_percentile_weight_threshold' = BottomPercentile(df_customer_importance)
    /\ top_1_percentile_weight_threshold' = TopPercentile(df_customer_importance)
    /\ pending' = << >>
    /\ calls' = << >>
    /\ toRead' = {}
    /\ reads' = << >>
    /\ merchant_total_txns_map' = << >>
    /\ final_detections' = {}
    /\ units' = {}
    /\ file_uuid' = 0
    /\ num_rows' = 0
    /\ y_start_time_ist' = NULL
    /\ detection_time_ist_str' = NULL
    /\ UNCHANGED << ingestion, df_customer_importance, chunks, merchant_counts, checkpoint,
                    faults, batch_id, current_df, output, hist >>

-----------------------------------------------------------------------------
(* process_batch, step by step *)

Without(f, k) == [x \in (DOMAIN f) \ {k} |-> f[x]]

(* Variant: the early return is missing; the call goes through the          *)
(* aggregation, the loops and the detectors, all on no rows, and reaches    *)
(* the writer.                                                              *)
PB_Empty_NoReturn ==
    /\ queryState = "active"
    /\ pc = "start"
    /\ isEmpty(current_df)
    /\ pc' = "write"
    /\ UNCHANGED << ingestion, reference, merchant_counts, checkpoint, queryState, faults,
                    batch_id, current_df, locals, output, hist >>

(* if current_df.isEmpty(): return *)
PB_Empty ==
    /\ queryState = "active"
    /\ pc = "start"
    /\ isEmpty(current_df)
    /\ pc' = "returned"
    /\ UNCHANGED << ingestion, reference, merchant_counts, checkpoint, queryState, faults,
                    batch_id, current_df, locals, output, hist >>

(* merchant_counts_pd = merchant_counts_in_batch.toPandas() *)
PB_GroupCounts ==
    /\ queryState = "active"
    /\ pc = "start"
    /\ ~ isEmpty(current_df)
    /\ pending' = merchant_counts_in_batch(current_df)
    /\ y_start_time_ist' = get_current_ist_timestamp_str(1)
    /\ pc' = "upsert"
    /\ UNCHANGED << ingestion, reference, merchant_counts, checkpoint, queryState, faults,
                    batch_id, current_df, calls, toRead, reads,
                    merchant_total_txns_map, final_detections, units, file_uuid, num_rows, detection_time_ist_str,
                    output, hist >>

(* One iteration of: for index, row in merchant_counts_pd.iterrows():        *)
(*     upsert_merchant_counts(row['merchant'], row['batch_count'])           *)
(* The rows come in the order the aggregation produced them.  After the last *)
(* one the distinct merchants of the batch are collected for the lookups.    *)
PB_Upsert(m, outcome) ==
    /\ queryState = "active"
    /\ pc = "upsert"
    /\ m \in DOMAIN pending
    /\ outcome = "ok" \/ faults < MaxFaults
    /\ LET r == upsert_merchant_counts(merchant_counts, m, pending[m], outcome)
           issued == Append(calls, [merchant |-> m, delta |-> pending[m],
                                    outcome |-> outcome])
       IN  /\ merchant_counts' = r.table
           /\ calls' = issued
           /\ pending' = Without(pending, m)
           /\ IF r.raised
              THEN /\ queryState' = "terminated"
                   /\ pc' = "raised"
                   /\ toRead' = toRead
                   /\ hist' = NoteStoreError(NoteAbandoned("store_error"))
              ELSE /\ queryState' = queryState
                   /\ pc' = IF DOMAIN pending = {m} THEN "read" ELSE "upsert"
                   /\ toRead' = IF DOMAIN pending = {m}
                                THEN distinct_merchants_in_batch(current_df)
                                ELSE toRead
                   /\ hist' = IF outcome = "ok"
                              THEN NoteApplied(hist, m, pending[m])
                              ELSE NoteStoreError(hist)
    /\ faults' = IF outcome = "ok" THEN faults ELSE faults + 1
    /\ UNCHANGED << ingestion, reference, checkpoint, batch_id, current_df, reads,
                    merchant_total_txns_map, final_detections, units, file_uuid, num_rows, y_start_time_ist,
                    detection_time_ist_str,
                    output >>

(* One entry of the dict comprehension                                       *)
(*   {m.merchant: get_merchant_total_transactions(m.merchant) for m in ...}  *)
PB_Read(m, outcome) ==
    /\ queryState = "active"
    /\ pc = "read"
    /\ m \in toRead
    /\ outcome = "ok" \/ faults < MaxFaults
    /\ LET r == get_merchant_total_transactions(merchant_counts, m, outcome)
       IN  /\ reads' = Append(reads, [merchant |-> m, outcome |-> outcome])
           /\ toRead' = toRead \ {m}
           /\ IF r.raised
              THEN /\ queryState' = "terminated"
                   /\ pc' = "raised"
                   /\ merchant_total_txns_map' = merchant_total_txns_map
                   /\ hist' = NoteStoreError(NoteAbandoned("store_error"))
              ELSE /\ queryState' = queryState
                   /\ pc' = IF toRead = {m} THEN "detect" ELSE "read"
                   /\ merchant_total_txns_map' =
                          merchant_total_txns_map @@ (m :> r.value)
                   /\ hist' = IF outcome = "ok" THEN hist ELSE NoteStoreError(hist)
    /\ faults' = IF outcome = "ok" THEN faults ELSE faults + 1
    /\ UNCHANGED << ingestion, reference, merchant_counts, checkpoint, batch_id,
                    current_df, pending, calls, final_detections, units,
                    file_uuid, num_rows, y_start_time_ist,
                    detection_time_ist_str, output >>

(* The three patterns and their union. *)
PB_Detect ==
    /\ queryState = "active"
    /\ pc = "detect"
    /\ final_detections' = all_detections(current_df, df_customer_importance,
                                          bottom_1_percentile_weight_threshold,
                                          merchant_total_txns_map)
    /\ detection_time_ist_str' = get_current_ist_timestamp_str(2)
    /\ pc' = "write"
    /\ UNCHANGED << ingestion, reference, merchant_counts, checkpoint, queryState, faults,
                    batch_id, current_df, pending, calls, toRead, reads,
                    merchant_total_txns_map, units, file_uuid, num_rows,
                    y_start_time_ist, output, hist >>

(* Variant: the writer runs on the empty result too and leaves a part file  *)
(* without rows.                                                            *)
PB_NoDetections_EmptyFile ==
    /\ queryState = "active"
    /\ pc = "write"
    /\ final_detections = {}
    /\ output' = output \cup {[batch |-> batch_id, token |-> hist.attempts,
                               part |-> 1, rows |-> {},
                               YStartTime |-> y_start_time_ist,
                               detectionTime |-> detection_time_ist_str]}
    /\ pc' = "returned"
    /\ UNCHANGED << ingestion, reference, merchant_counts, checkpoint, queryState, faults,
                    batch_id, current_df, locals, hist >>

(* if not final_detections.isEmpty(): ... else: print("No detections ...") *)
PB_NoDetections ==
    /\ queryState = "active"
    /\ pc = "write"
    /\ final_detections = {}
    /\ pc' = "returned"
    /\ UNCHANGED << ingestion, reference, merchant_counts, checkpoint, queryState, faults,
                    batch_id, current_df, locals, output, hist >>


(* Variant: the write is started and process_batch returns without waiting  *)
(* for it.                                                                  *)
PB_Repartition_NoWait ==
    /\ queryState = "active"
    /\ pc = "write"
    /\ final_detections # {}
    /\ num_rows' = Cardinality(final_detections)
    /\ units' = {[part |-> 1, rows |-> final_detections,
                  YStartTime |-> y_start_time_ist,
                  detectionTime |-> detection_time_ist_str]}
    /\ file_uuid' = hist.attempts
    /\ pc' = "returned"
    /\ UNCHANGED << ingestion, reference, merchant_counts, checkpoint, queryState, faults,
                    batch_id, current_df, pending, calls, toRead, reads,
                    merchant_total_txns_map, final_detections, y_start_time_ist,
                    detection_time_ist_str, output, hist >>

(* final_detections.repartition(num_partitions): the rows are dealt to the   *)
(* partitions; where the dealing starts is up to the engine.  A partition    *)
(* without rows gives no part file.  The folder token is fresh for every     *)
(* call.                                                                     *)
PB_Repartition ==
    /\ queryState = "active"
    /\ pc = "write"
    /\ final_detections # {}
    /\ num_rows' = count(all_detections_rows(current_df, df_customer_importance,
                                             bottom_1_percentile_weight_threshold,
                                             merchant_total_txns_map))
    /\ LET n == num_partitions(num_rows')
       IN  \E start \in [PatternIds -> 0..(n - 1)] :
              units' = {u \in {[part |-> p,
                                rows |-> repartition(final_detections, n, start)[p],
                                YStartTime |-> y_start_time_ist,
                                detectionTime |-> detection_time_ist_str] :
                                  p \in 1..n} :
                          u.rows # {}}
    /\ file_uuid' = hist.attempts
    /\ pc' = "writing"
    /\ UNCHANGED << ingestion, reference, merchant_counts, checkpoint, queryState, faults,
                    batch_id, current_df, pending, calls, toRead, reads,
                    merchant_total_txns_map, final_detections, y_start_time_ist,
                    detection_time_ist_str, output, hist >>

(* One partition is written as a part file of detections_batch_<id>_<token>. *)
PB_WriteUnit(u) ==
    /\ queryState = "active"
    /\ pc = "writing"
    /\ u \in units
    /\ output' = output \cup {[batch |-> batch_id, token |-> file_uuid,
                               part |-> u.part, rows |-> u.rows,
                               YStartTime |-> u.YStartTime,
                               detectionTime |-> u.detectionTime]}
    /\ units' = units \ {u}
    /\ pc' = IF units = {u} THEN "returned" ELSE "writing"
    /\ UNCHANGED << ingestion, reference, merchant_counts, checkpoint, queryState, faults,
                    batch_id, current_df, pending, calls, toRead, reads,
                    merchant_total_txns_map, final_detections, file_uuid, num_rows,
                    y_start_time_ist, detection_time_ist_str, hist >>

-----------------------------------------------------------------------------

Next ==
    \/ Trigger
    \/ Commit
    \/ Raise
    \/ Crash
    \/ Restart
    \/ PB_Empty
    \/ PB_GroupCounts
    \/ \E m \in Merchants, outcome \in StoreOutcomes : PB_Upsert(m, outcome)
    \/ \E m \in Merchants, outcome \in StoreOutcomes : PB_Read(m, outcome)
    \/ PB_Detect
    \/ PB_NoDetections
    \/ PB_Repartition
    \/ \E u \in units : PB_WriteUnit(u)

Spec == Init /\ [][Next]_vars

-----------------------------------------------------------------------------
(* The run in which nothing fails, over a wider choice of chunk files: the   *)
(* query plans, processes and commits one chunk after the other.             *)

InitClean ==
    /\ NoIngestion
    /\ df_customer_importance \in ImportancePool
    /\ bottom_1_percentile_weight_threshold = BottomPercentile(df_customer_importance)
    /\ top_1_percentile_weight_threshold = TopPercentile(df_customer_importance)
    /\ chunks \in [1..MaxChunks -> DetectPool]
    /\ merchant_counts \in CountsPool
    /\ offsetLog = << >>
    /\ commitLog = {}
    /\ queryState = "active"
    /\ faults = 0
    /\ pc = "waiting"
    /\ batch_id = 0
    /\ current_df = << >>
    /\ NoLocals
    /\ output = {}
    /\ hist = [attempts  |-> 0,
               invoked   |-> << >>,
               overrun   |-> FALSE,
               store_errors |-> 0,
               redone    |-> << >>,
               initial   |-> merchant_counts,
               pre       |-> merchant_counts,
               applied   |-> << >>,
               abandoned |-> << >>,
               committed |-> << >>]

NextClean ==
    \/ Trigger
    \/ Commit
    \/ PB_Empty
    \/ PB_GroupCounts
    \/ \E m \in Merchants : PB_Upsert(m, "ok")
    \/ \E m \in Merchants : PB_Read(m, "ok")
    \/ PB_Detect
    \/ PB_NoDetections
    \/ PB_Repartition
    \/ \E u \in units : PB_WriteUnit(u)

SpecClean == InitClean /\ [][NextClean]_vars

-----------------------------------------------------------------------------
(* The query with its trigger interval: calls of process_batch may take     *)
(* longer than the interval.                                                *)

TimedPool == {ChunkEmpty, ChunkLow80, ChunkGenderOther}

InitTimed ==
    /\ NoIngestion
    /\ df_customer_importance = ImportanceA
    /\ bottom_1_percentile_weight_threshold = BottomPercentile(df_customer_importance)
    /\ top_1_percentile_weight_threshold = TopPercentile(df_customer_importance)
    /\ chunks \in [1..MaxChunks -> TimedPool]
    /\ merchant_counts = CountsNear
    /\ offsetLog = << >>
    /\ commitLog = {}
    /\ queryState = "active"
    /\ faults = 0
    /\ pc = "waiting"
    /\ batch_id = 0
    /\ current_df = << >>
    /\ NoLocals
    /\ output = {}
    /\ hist = [attempts  |-> 0,
               invoked   |-> << >>,
               overrun   |-> FALSE,
               store_errors |-> 0,
               redone    |-> << >>,
               initial   |-> merchant_counts,
               pre       |-> merchant_counts,
               applied   |-> << >>,
               abandoned |-> << >>,
               committed |-> << >>]

NextTimed ==
    \/ Next
    \/ Tick

SpecTimed == InitTimed /\ [][NextTimed]_vars

-----------------------------------------------------------------------------
(* The job under fair scheduling of its own steps.                          *)

(* A step of the running query: the trigger loop of query.start() and the   *)
(* statements of process_batch, which run one after the other.              *)
QueryStep ==
    \/ Trigger
    \/ Commit
    \/ PB_Empty
    \/ PB_GroupCounts
    \/ \E m \in Merchants : PB_Upsert(m, "ok")
    \/ \E m \in Merchants : PB_Read(m, "ok")
    \/ PB_Detect
    \/ PB_NoDetections
    \/ PB_Repartition
    \/ \E u \in units : PB_WriteUnit(u)

(* The chunk files of the run: without rows, with detections, and with rows *)
(* but no detection.                                                        *)
FairPool == {ChunkEmpty, ChunkLow80, ChunkAt80}

InitFair ==
    /\ NoIngestion
    /\ df_customer_importance = ImportanceA
    /\ bottom_1_percentile_weight_threshold = BottomPercentile(df_customer_importance)
    /\ top_1_percentile_weight_threshold = TopPercentile(df_customer_importance)
    /\ chunks \in [1..MaxChunks -> FairPool]
    /\ merchant_counts = CountsNear
    /\ offsetLog = << >>
    /\ commitLog = {}
    /\ queryState = "active"
    /\ faults = 0
    /\ pc = "waiting"
    /\ batch_id = 0
    /\ current_df = << >>
    /\ NoLocals
    /\ output = {}
    /\ hist = [attempts  |-> 0,
               invoked   |-> << >>,
               overrun   |-> FALSE,
               store_errors |-> 0,
               redone    |-> << >>,
               initial   |-> merchant_counts,
               pre       |-> merchant_counts,
               applied   |-> << >>,
               abandoned |-> << >>,
               committed |-> << >>]

(* The query keeps running while it is active: the processing-time trigger  *)
(* fires again and again and a statement that can run does run.  Nothing in *)
(* the program starts the job again once it has stopped, so Restart, which  *)
(* is the operator's, is not under fairness; crashes and failures are       *)
(* limited to MaxFaults.                                                    *)
SpecFair == InitFair /\ [][Next]_vars /\ WF_vars(QueryStep)

-----------------------------------------------------------------------------
(* The job started on reference files of various lengths. *)

InitReference ==
    /\ NoIngestion
    /\ df_customer_importance \in ReferencePool
    /\ bottom_1_percentile_weight_threshold = BottomPercentile(df_customer_importance)
    /\ top_1_percentile_weight_threshold = TopPercentile(df_customer_importance)
    /\ chunks \in [1..MaxChunks -> TimedPool]
    /\ merchant_counts = CountsNear
    /\ offsetLog = << >>
    /\ commitLog = {}
    /\ queryState = "active"
    /\ faults = 0
    /\ pc = "waiting"
    /\ batch_id = 0
    /\ current_df = << >>
    /\ NoLocals
    /\ output = {}
    /\ hist = [attempts  |-> 0,
               invoked   |-> << >>,
               overrun   |-> FALSE,
               store_errors |-> 0,
               redone    |-> << >>,
               initial   |-> merchant_counts,
               pre       |-> merchant_counts,
               applied   |-> << >>,
               abandoned |-> << >>,
               committed |-> << >>]

SpecReference == InitReference /\ [][Next]_vars

-----------------------------------------------------------------------------
(* The detectors and the writer on large batches.  The first batch of a     *)
(* fresh job has gone through the increments and the lookups without a      *)
(* failure; the chunk holds many merchants, so that the merged detections   *)
(* fill more than one part file.                                            *)

(* A chunk with merchants 1..total.  The first cheap of them have 80 rows   *)
(* of 22 from a male customer C1, the others one row of 30.                 *)
BulkChunk(cheap, total) ==
    [r \in {Row("C1", BulkMerchant(i), "M", IF i <= cheap THEN 22 ELSE 30) :
                i \in 1..total}
        |-> IF r.amount = 22 THEN 80 ELSE 1]

WriterPool ==
    {BulkChunk(0, 1), BulkChunk(1, 1), BulkChunk(0, 50), BulkChunk(0, 51),
     BulkChunk(25, 25), BulkChunk(49, 51), BulkChunk(50, 50), BulkChunk(0, 101),
     BulkChunk(0, 125), BulkChunk(50, 75), BulkChunk(75, 75),
     BulkChunk(0, MaxMerchants)}

(* The merchants of a batch in the order of merchant_counts_pd. *)
MerchantSeq(df) ==
    SelectSeq([i \in 1..MaxMerchants |-> BulkMerchant(i)],
              LAMBDA m : m \in distinct_merchants_in_batch(df))

(* The upsert calls and the lookups of a batch in which no store call fails. *)
CallsOf(df) ==
    LET q == MerchantSeq(df)
    IN  [i \in 1..Len(q) |->
            [merchant |-> q[i], delta |-> merchant_counts_in_batch(df)[q[i]],
             outcome |-> "ok"]]

ReadsOf(df) ==
    LET q == MerchantSeq(df)
    IN  [i \in 1..Len(q) |-> [merchant |-> q[i], outcome |-> "ok"]]

InitWriter ==
    /\ NoIngestion
    /\ df_customer_importance \in ImportancePool
    /\ bottom_1_percentile_weight_threshold = BottomPercentile(df_customer_importance)
    /\ top_1_percentile_weight_threshold = TopPercentile(df_customer_importance)
    /\ current_df \in WriterPool
    /\ chunks = << current_df >>
    /\ merchant_counts = merchant_counts_in_batch(current_df)
    /\ offsetLog = (0 :> 1)
    /\ commitLog = {}
    /\ queryState = "active"
    /\ faults = 0
    /\ pc = "detect"
    /\ batch_id = 0
    /\ pending = << >>
    /\ calls = CallsOf(current_df)
    /\ toRead = {}
    /\ reads = ReadsOf(current_df)
    /\ merchant_total_txns_map = merchant_counts_in_batch(current_df)
    /\ final_detections = {}
    /\ units = {}
    /\ file_uuid = 0
    /\ num_rows = 0
    /\ y_start_time_ist = Some([attempt |-> 1, read |-> 1])
    /\ detection_time_ist_str = NULL
    /\ output = {}
    /\ hist = [attempts  |-> 1,
               invoked   |-> (0 :> 1),
               overrun   |-> FALSE,
               store_errors |-> 0,
               redone    |-> << >>,
               initial   |-> << >>,
               pre       |-> << >>,
               applied   |-> [k \in {<<m, merchant_counts_in_batch(current_df)[m]>> :
                                        m \in distinct_merchants_in_batch(current_df)}
                                 |-> 1],
               abandoned |-> << >>,
               committed |-> << >>]

NextWriter ==
    \/ PB_Detect
    \/ PB_Repartition
    \/ \E u \in units : PB_WriteUnit(u)
    \/ Commit

SpecWriter == InitWriter /\ [][NextWriter]_vars

-----------------------------------------------------------------------------
(* Properties *)

InCall == pc \in {"start", "upsert", "read", "detect", "write", "writing", "returned"}
Incremented == pc \in {"read", "detect", "write", "writing", "returned"}
Merged == pc \in {"write", "writing", "returned"}

Total(table, m) == IF m \in DOMAIN table THEN table[m] ELSE 0

MerchantRows(df, m) == {r \in DOMAIN df : r.merchant = m}

BatchMerchants(df) == {m \in Merchants : MerchantRows(df, m) # {}}

WrittenRows(b, token) ==
    UNION {u.rows : u \in {x \in output : x.batch = b /\ x.token = token}}

(* C1: a batch is in the commit log only if the attempt that committed it   *)
(* had written all of its merged detections to the output before: the rows  *)
(* found under the folder of that attempt are exactly its merged set.       *)
C1_WriteBeforeCommit ==
    \A b \in commitLog :
        /\ b \in DOMAIN hist.committed
        /\ hist.committed[b].rows # {} =>
              WrittenRows(b, hist.committed[b].token) = hist.committed[b].rows

C1_Witness ==
    \E b \in commitLog :
        /\ hist.committed[b].rows # {}
        /\ b \in DOMAIN hist.abandoned
        /\ hist.abandoned[b].merged

(* C2: the batch handed to process_batch is never a committed one; it is    *)
(* the batch right after the committed ones, which are 0 .. n-1 without a   *)
(* gap, and its input is the chunk right after theirs.                      *)
C2_ResumeAfterLastCommitted ==
    /\ commitLog = 0 .. (Cardinality(commitLog) - 1)
    /\ InCall =>
          /\ batch_id \notin commitLog
          /\ batch_id = Cardinality(commitLog)
          /\ offsetLog[batch_id] = batch_id + 1
          /\ current_df = chunks[batch_id + 1]

C2_Witness ==
    /\ pc = "start"
    /\ batch_id = 1
    /\ commitLog = {0}
    /\ 1 \in DOMAIN hist.abandoned

(* C3: when a detector step or the write raised, the batch is not committed *)
(* and the query is terminated; the next batch processed is the same batch  *)
(* on the same input, and that attempt adds the batch's per-merchant row    *)
(* counts to the counters once more.                                        *)
C3_FailedBatchRetried ==
    /\ pc = "raised" =>
          /\ queryState = "terminated"
          /\ batch_id \notin commitLog
          /\ batch_id \in DOMAIN hist.abandoned
    /\ \A b \in DOMAIN hist.abandoned :
          (hist.abandoned[b].cause = "batch_error" /\ b \notin commitLog /\ InCall) =>
              /\ batch_id = b
              /\ current_df = hist.abandoned[b].input
              /\ (Incremented /\ CleanAttempt) =>
                    \A m \in BatchMerchants(current_df) :
                        Total(merchant_counts, m) =
                            Total(hist.pre, m) + RowCount(current_df, MerchantRows(current_df, m))

(* C3 as stated: after the error the batch is not committed and the query   *)
(* keeps running, so that the next trigger processes the same batch again.  *)
C3_RetriedOnNextTrigger ==
    \A b \in DOMAIN hist.abandoned :
        (hist.abandoned[b].cause = "batch_error" /\ b \notin commitLog) =>
            /\ queryState = "active"
            /\ InCall => (batch_id = b /\ current_df = hist.abandoned[b].input)

C3_Witness ==
    /\ pc = "returned"
    /\ batch_id \in DOMAIN hist.abandoned
    /\ hist.abandoned[batch_id].cause = "batch_error"
    /\ \E m \in BatchMerchants(current_df) :
          Total(merchant_counts, m) =
              Total(hist.initial, m) + 2 * RowCount(current_df, MerchantRows(current_df, m))

Replaying == Merged /\ batch_id \in DOMAIN hist.abandoned /\ hist.abandoned[batch_id].merged

(* C4 as stated: the merged detections of a replay are those of the         *)
(* abandoned attempt of the same batch, for all three patterns.             *)
C4_ReplayIdentical ==
    Replaying => final_detections = hist.abandoned[batch_id].det

(* C4, amended: the replay reproduces the PatId2 and PatId3 detections of    *)
(* the abandoned attempt; its PatId1 detections include those of the        *)
(* abandoned attempt when no store call failed in either attempt.           *)
C4_ReplayIdenticalBatchLocal ==
    Replaying =>
        /\ OfPattern(final_detections, "PatId2") = OfPattern(hist.abandoned[batch_id].det, "PatId2")
        /\ OfPattern(final_detections, "PatId3") = OfPattern(hist.abandoned[batch_id].det, "PatId3")
        /\ (CleanAttempt /\ hist.abandoned[batch_id].clean) =>
              OfPattern(hist.abandoned[batch_id].det, "PatId1")
                  \subseteq OfPattern(final_detections, "PatId1")

C4_Witness ==
    /\ Replaying
    /\ OfPattern(final_detections, "PatId2") # {}
    /\ OfPattern(final_detections, "PatId1") # OfPattern(hist.abandoned[batch_id].det, "PatId1")

(* C5 as stated: no batch is abandoned because a store call failed; after a *)
(* failed store call process_batch is still running.                        *)
C5_StoreFailureNotFatal ==
    /\ \A b \in DOMAIN hist.abandoned : hist.abandoned[b].cause # "store_error"
    /\ (\E i \in 1..Len(calls) : calls[i].outcome # "ok") => pc # "raised"
    /\ (\E i \in 1..Len(reads) : reads[i].outcome # "ok") => pc # "raised"

RECURSIVE AppliedSum(_, _, _)
AppliedSum(applied, S, m) ==
    IF S = {} THEN 0
    ELSE LET k == CHOOSE x \in S : TRUE
         IN  (IF k[1] = m THEN k[2] * applied[k] ELSE 0) + AppliedSum(applied, S \ {k}, m)

CounterIsSumOfApplied ==
    \A m \in Merchants :
        /\ Total(merchant_counts, m) =
              Total(hist.initial, m) + AppliedSum(hist.applied, DOMAIN hist.applied, m)
        /\ m \in DOMAIN merchant_counts <=>
              (m \in DOMAIN hist.initial \/ \E k \in DOMAIN hist.applied : k[1] = m)

CounterNeverDecreases ==
    \A m \in Merchants :
        /\ Total(merchant_counts', m) >= Total(merchant_counts, m)
        /\ m \in DOMAIN merchant_counts => m \in DOMAIN merchant_counts'

(* C6: every merchant's counter is its value at the start plus the sum of   *)
(* the deltas of the increments that took effect, in whatever order they    *)
(* were applied; a merchant has a row iff it had one at the start or an     *)
(* increment took effect; no step decreases a counter or removes a row.     *)
C6_CounterIsSumOfDeltas == [] CounterIsSumOfApplied /\ [][CounterNeverDecreases]_vars

C6_Witness ==
    /\ hist.initial = CountsNone
    /\ faults > 0
    /\ \E m \in Merchants :
          /\ m \in DOMAIN merchant_counts
          /\ \E k \in DOMAIN hist.applied : k[1] = m /\ merchant_counts[m] > k[2]

CalledMerchants == {calls[i].merchant : i \in 1..Len(calls)}
ReadMerchants == {reads[i].merchant : i \in 1..Len(reads)}

(* C7: every increment call of an attempt is for a merchant of the batch,   *)
(* with the number of that merchant's rows as delta, and no merchant gets   *)
(* two calls; once the loop is over, every merchant of the batch got one.   *)
C7_OneIncrementPerMerchant ==
    /\ \A i \in 1..Len(calls) :
          /\ calls[i].merchant \in BatchMerchants(current_df)
          /\ calls[i].delta = RowCount(current_df, MerchantRows(current_df, calls[i].merchant))
    /\ \A i, j \in 1..Len(calls) : calls[i].merchant = calls[j].merchant => i = j
    /\ Incremented => CalledMerchants = BatchMerchants(current_df)

C7_Witness ==
    /\ pc = "read"
    /\ Len(calls) = 2
    /\ \E i \in 1..2 : calls[i].delta = 79

SnapshotAfterIncrements ==
    /\ reads # << >> => (pending = << >> /\ CalledMerchants = BatchMerchants(current_df))
    /\ \A i, j \in 1..Len(reads) : reads[i].merchant = reads[j].merchant => i = j
    /\ ReadMerchants \subseteq BatchMerchants(current_df)
    /\ (pc \in {"detect", "write", "writing"} \/ (pc = "returned" /\ ~ isEmpty(current_df))) =>
          /\ ReadMerchants = BatchMerchants(current_df)
          /\ DOMAIN merchant_total_txns_map = BatchMerchants(current_df)
          /\ CleanAttempt =>
                \A m \in BatchMerchants(current_df) :
                    merchant_total_txns_map[m] =
                        Total(hist.pre, m) + RowCount(current_df, MerchantRows(current_df, m))

SnapshotFrozen ==
    pc \in {"detect", "write", "writing"} => merchant_total_txns_map' = merchant_total_txns_map

(* C8: a lookup happens only after every increment call of the batch was    *)
(* issued; each merchant of the batch is looked up once; when no store call *)
(* failed the snapshot holds, per merchant, the counter at the start of the *)
(* attempt plus the merchant's rows in the batch; and no step of the        *)
(* detectors or the writer changes the snapshot.                            *)
C8_SnapshotAfterIncrements == [] SnapshotAfterIncrements /\ [][SnapshotFrozen]_vars

C8_Witness ==
    /\ pc = "write"
    /\ CleanAttempt
    /\ Len(reads) = 2
    /\ merchant_total_txns_map["M2"] = 50001

HasRow(df, c, m) == \E r \in DOMAIN df : r.customer = c /\ r.merchant = m

HasWeightAtMost(imp, c, m, w) ==
    \E i \in 1..Len(imp) :
        imp[i].customer_id = c /\ imp[i].merchant_id = m /\ imp[i].weight <= w

(* C9: the PatId1 detections of a batch are exactly the UPGRADE rows of the *)
(* pairs (customer, merchant) that have a row in the batch, a reference     *)
(* weight <= bottomPct and a snapshot count above 50000.                    *)
C9_Pat1Iff ==
    Merged =>
        /\ OfPattern(final_detections, "PatId1") \subseteq
              {Detection("PatId1", "UPGRADE", c, m) : c \in Customers, m \in Merchants}
        /\ \A c \in Customers, m \in Merchants :
              Detection("PatId1", "UPGRADE", c, m) \in final_detections <=>
                  /\ HasRow(current_df, c, m)
                  /\ HasWeightAtMost(df_customer_importance, c, m,
                                     bottom_1_percentile_weight_threshold)
                  /\ Total(merchant_total_txns_map, m) > 50000

C9_Witness ==
    /\ Merged
    /\ \E d \in OfPattern(final_detections, "PatId1") :
          /\ merchant_total_txns_map[d.MerchantId] = 50001
          /\ \E i \in 1..Len(df_customer_importance) :
                /\ df_customer_importance[i].customer_id = d.customerName
                /\ df_customer_importance[i].merchant_id = d.MerchantId
                /\ df_customer_importance[i].weight = bottom_1_percentile_weight_threshold

PairCount(df, c, m) ==
    RowCount(df, {r \in DOMAIN df : r.customer = c /\ r.merchant = m})

PairAmount(df, c, m) ==
    AmountSum(df, {r \in DOMAIN df : r.customer = c /\ r.merchant = m})

FemaleRows(df, m) ==
    RowCount(df, {r \in DOMAIN df : r.merchant = m /\ r.gender = "F"})

MaleRows(df, m) ==
    RowCount(df, {r \in DOMAIN df : r.merchant = m /\ r.gender = "M"})

(* C11 as stated: PatId3 detects a merchant iff it has both a female and a   *)
(* male count in the batch and the female count is below the male count; a   *)
(* merchant with male rows only is not detected.                             *)
C11_Pat3BothPresent ==
    Merged =>
        \A m \in Merchants :
            Detection("PatId3", "DEI-NEEDED", "", m) \in final_detections <=>
                /\ FemaleRows(current_df, m) > 0
                /\ MaleRows(current_df, m) > 0
                /\ FemaleRows(current_df, m) < MaleRows(current_df, m)

(* C11, amended: the PatId3 detections of a batch are exactly the DEI-NEEDED *)
(* rows, without customer, of the merchants whose female row count in the    *)
(* batch (0 when there is none) is below their male row count; rows of any   *)
(* other gender do not count.  A merchant with male rows only is detected,   *)
(* one with female rows only or with equal counts is not.                    *)
C11_Pat3Iff ==
    Merged =>
        /\ OfPattern(final_detections, "PatId3") \subseteq
              {Detection("PatId3", "DEI-NEEDED", "", m) : m \in Merchants}
        /\ \A m \in Merchants :
              Detection("PatId3", "DEI-NEEDED", "", m) \in final_detections <=>
                  FemaleRows(current_df, m) < MaleRows(current_df, m)

(* Batch 0 detected a merchant with male rows only; the batch at hand has a  *)
(* merchant with 9 female and 10 male rows, detected, and one with 10 of     *)
(* each, not detected.                                                       *)
C11_Witness ==
    /\ Merged
    /\ batch_id = 1
    /\ 0 \in commitLog
    /\ \E m \in Merchants :
          /\ FemaleRows(hist.committed[0].input, m) = 0
          /\ Detection("PatId3", "DEI-NEEDED", "", m) \in hist.committed[0].rows
    /\ \E m \in Merchants :
          /\ FemaleRows(current_df, m) = 9
          /\ MaleRows(current_df, m) = 10
          /\ Detection("PatId3", "DEI-NEEDED", "", m) \in final_detections
    /\ \E m \in Merchants :
          /\ FemaleRows(current_df, m) = 10
          /\ MaleRows(current_df, m) = 10
          /\ Detection("PatId3", "DEI-NEEDED", "", m) \notin final_detections

UnitsOf(b, token) == {x \in output : x.batch = b /\ x.token = token}

RECURSIVE SizeSum(_)
SizeSum(U) ==
    IF U = {} THEN 0
    ELSE LET u == CHOOSE x \in U : TRUE
         IN  Cardinality(u.rows) + SizeSum(U \ {u})

UnitSizes(U) == {Cardinality(u.rows) : u \in U}

(* C12 as stated: a write of N > 0 merged detections that has come to its   *)
(* end produced ceil(N / 50) units, none of more than 50 rows; with 125     *)
(* detections the units hold 50, 50 and 25 rows.                            *)
C12_UnitsOfAtMostBatchSize ==
    (pc = "returned" /\ final_detections # {}) =>
        LET N == Cardinality(final_detections)
            U == UnitsOf(batch_id, file_uuid)
        IN  /\ Cardinality(U) = (N + DETECTION_BATCH_SIZE - 1) \div DETECTION_BATCH_SIZE
            /\ \A u \in U : Cardinality(u.rows) <= DETECTION_BATCH_SIZE
            /\ N = 125 => (UnitSizes(U) = {50, 25} /\ SizeSum(U) = 125)

(* The part of C12 about the size of a unit alone. *)
C12_NoUnitAboveBatchSize ==
    \A u \in output : Cardinality(u.rows) <= DETECTION_BATCH_SIZE

(* The part of C12 about 125 detections alone. *)
C12_Sizes125 ==
    (pc = "returned" /\ Cardinality(final_detections) = 125) =>
        UnitSizes(UnitsOf(batch_id, file_uuid)) = {50, 25}

Partitioned(U, S) ==
    /\ UNION {u.rows : u \in U} = S
    /\ \A u, v \in U : u # v => u.rows \cap v.rows = {}
    /\ \A u, v \in U : u.part = v.part => u = v
    /\ SizeSum(U) = Cardinality(S)

(* C13: when the write of a batch has come to its end, and still when the   *)
(* batch is committed, the part files under the folder of that write hold   *)
(* between them exactly the merged detections: every detection is in one    *)
(* part file and in one only, and the sizes of the part files add up to the *)
(* number of detections.                                                    *)
C13_UnitsPartitionDetections ==
    /\ (pc = "returned" /\ final_detections # {}) =>
          Partitioned(UnitsOf(batch_id, file_uuid), final_detections)
    /\ \A b \in DOMAIN hist.committed :
          hist.committed[b].rows # {} =>
              Partitioned(UnitsOf(b, hist.committed[b].token), hist.committed[b].rows)

(* 125 detections were written as three part files; 100 detections of two   *)
(* patterns as two.                                                         *)
C13_Witness ==
    /\ pc = "returned"
    /\ \/ /\ Cardinality(final_detections) = 125
          /\ Cardinality(UnitsOf(batch_id, file_uuid)) = 3
       \/ /\ Cardinality(OfPattern(final_detections, "PatId2")) = 49
          /\ Cardinality(OfPattern(final_detections, "PatId3")) = 51
          /\ Cardinality(UnitsOf(batch_id, file_uuid)) = 2

EmptyBatchUntouched ==
    /\ (InCall /\ isEmpty(current_df)) =>
          /\ pc \in {"start", "returned"}
          /\ calls = << >>
          /\ reads = << >>
          /\ merchant_counts = hist.pre
          /\ \A u \in output : u.batch # batch_id
          /\ pc = "returned" => ENABLED Commit
    /\ \A b \in DOMAIN hist.committed :
          isEmpty(hist.committed[b].input) =>
              /\ b \in commitLog
              /\ \A u \in output : u.batch # b

EmptyBatchStep ==
    (InCall /\ isEmpty(current_df)) =>
        /\ merchant_counts' = merchant_counts
        /\ output' = output
        /\ (pc = "returned" /\ pc' = "waiting") =>
              /\ commitLog' = commitLog \cup {batch_id}
              /\ NextBatchId' = batch_id + 1

(* C14: while an empty batch is processed no counter changes, no store call *)
(* is issued and no part file is written, in any step and in any attempt;   *)
(* the call returns at once, the batch can then be committed, and the       *)
(* commit moves the query on to the next batch.                             *)
C14_EmptyBatchSkipped == [] EmptyBatchUntouched /\ [][EmptyBatchStep]_vars

(* An empty chunk was committed as batch 1, after a batch that raised the   *)
(* counters and wrote detections.                                           *)
C14_Witness ==
    /\ commitLog = {0, 1}
    /\ isEmpty(hist.committed[1].input)
    /\ hist.committed[0].rows # {}
    /\ merchant_counts # hist.initial
    /\ output # {}

Invocations(b) == IF b \in DOMAIN hist.invoked THEN hist.invoked[b] ELSE 0

CallStarts == hist'.invoked # hist.invoked

(* A call starts only when no call is in progress and the batch of the call *)
(* before it is committed or abandoned; it is for the batch after the       *)
(* committed ones, on the chunk of that number.                             *)
CallsInSequence ==
    CallStarts =>
        /\ pc = "waiting"
        /\ pc' = "start"
        /\ hist.attempts > 0 =>
              \/ batch_id \in commitLog
              \/ batch_id \in DOMAIN hist.abandoned /\ batch_id' = batch_id
        /\ batch_id' = Cardinality(commitLog)
        /\ current_df' = chunks[batch_id' + 1]
        /\ Invocations(batch_id') > 0 => batch_id' \in DOMAIN hist.abandoned

(* A call in progress is not cut short by the trigger interval: while the   *)
(* query is active its batch and its input stay the same until it is over.  *)
CallNotInterrupted ==
    (InCall /\ pc # "returned" /\ queryState' = "active" /\ pc' # "raised") =>
        /\ pc' # "waiting"
        /\ batch_id' = batch_id
        /\ current_df' = current_df

(* The batches called so far are 0 .. k; a committed batch that was never   *)
(* abandoned was called once; no batch was called more often than once plus *)
(* the number of failures.                                                  *)
CalledOncePerChunk ==
    /\ DOMAIN hist.invoked = 0 .. (Cardinality(DOMAIN hist.invoked) - 1)
    /\ \A b \in DOMAIN hist.invoked :
          /\ hist.invoked[b] >= 1
          /\ hist.invoked[b] <= 1 + faults
          /\ b \notin DOMAIN hist.abandoned => hist.invoked[b] = 1
          /\ b + 1 \in DOMAIN hist.invoked => b \in commitLog
    /\ commitLog \subseteq DOMAIN hist.invoked

(* C15: process_batch is called for one batch at a time.  A call starts     *)
(* only when none is in progress and the batch before is committed, or it   *)
(* is a new call for a batch that was abandoned; it takes the chunks in     *)
(* their order, once each unless the batch was abandoned; a call in         *)
(* progress when the trigger interval elapses goes on undisturbed.          *)
C15_OneBatchAtATime ==
    /\ [] CalledOncePerChunk
    /\ [][CallsInSequence]_vars
    /\ [][CallNotInterrupted]_vars

(* The call for batch 1 has started; the call for batch 0 took longer than  *)
(* the trigger interval and wrote detections before it was committed.       *)
C15_Witness ==
    /\ pc = "start"
    /\ batch_id = 1
    /\ 0 \in commitLog
    /\ hist.committed[0].overrun
    /\ hist.committed[0].rows # {}

(* v is the element at 0-based index k of the weights in ascending order:   *)
(* at most k weights are below v and more than k are at most v.             *)
AtSortedIndex(imp, k, v) ==
    /\ \E i \in 1..Len(imp) : imp[i].weight = v
    /\ Cardinality({i \in 1..Len(imp) : imp[i].weight < v}) <= k
    /\ Cardinality({i \in 1..Len(imp) : imp[i].weight <= v}) > k

PercentilesAtRank ==
    LET n == Len(df_customer_importance)
    IN  n > 0 =>
          /\ AtSortedIndex(df_customer_importance, n \div 100,
                           bottom_1_percentile_weight_threshold)
          /\ AtSortedIndex(df_customer_importance, (99 * n) \div 100,
                           top_1_percentile_weight_threshold)
          /\ {df_customer_importance[i].weight : i \in 1..n} = 1..100 /\ n = 100 =>
                bottom_1_percentile_weight_threshold = 2

PercentilesFrozen ==
    /\ bottom_1_percentile_weight_threshold' = bottom_1_percentile_weight_threshold
    /\ top_1_percentile_weight_threshold' = top_1_percentile_weight_threshold

(* C16: with n > 0 reference weights, bottomPct is the element at 0-based   *)
(* index floor(n / 100) and topPct the element at 0-based index             *)
(* floor(99 n / 100) of the weights in ascending order (for the weights     *)
(* 1..100, bottomPct is 2), and no step of the job changes either.          *)
C16_PercentileRanks == [] PercentilesAtRank /\ [][PercentilesFrozen]_vars

(* A job started on the weights 100, 99, ..., 1 has committed a batch and   *)
(* is in a call after a restart.                                            *)
C16_Witness ==
    /\ Len(df_customer_importance) = 100
    /\ df_customer_importance[1].weight = 100
    /\ bottom_1_percentile_weight_threshold = 2
    /\ top_1_percentile_weight_threshold = 100
    /\ commitLog # {}
    /\ faults > 0
    /\ Merged

RECURSIVE MerchantRowsUpTo(_, _)
MerchantRowsUpTo(k, m) ==
    IF k = 0 THEN 0
    ELSE RowCount(chunks[k], MerchantRows(chunks[k], m)) + MerchantRowsUpTo(k - 1, m)

(* The snapshot of batch b in the run of the same job in which no store     *)
(* call fails and no batch is replayed.                                     *)
FailureFreeSnapshot(b) ==
    [m \in distinct_merchants_in_batch(chunks[b + 1]) |->
        Total(hist.initial, m) + MerchantRowsUpTo(b + 1, m)]

(* The detections of batch b in that run. *)
FailureFreeDetections(b) ==
    all_detections(chunks[b + 1], df_customer_importance,
                   bottom_1_percentile_weight_threshold, FailureFreeSnapshot(b))

NoReplay == \A b \in DOMAIN hist.invoked : hist.invoked[b] = 1

OnlyPat1Removed(det, b) ==
    /\ OfPattern(det, "PatId1") \subseteq OfPattern(FailureFreeDetections(b), "PatId1")
    /\ OfPattern(det, "PatId2") = OfPattern(FailureFreeDetections(b), "PatId2")
    /\ OfPattern(det, "PatId3") = OfPattern(FailureFreeDetections(b), "PatId3")

(* C17 as stated: in a run without replay, whatever store calls fail, every *)
(* batch the run has processed has the PatId2 and PatId3 detections of the  *)
(* failure-free run and a subset of its PatId1 detections; a batch whose    *)
(* processing ended on a failed store call is no exception.                 *)
C17_StoreFailuresOnlyRemovePat1 ==
    NoReplay =>
        /\ Merged => OnlyPat1Removed(final_detections, batch_id)
        /\ \A b \in DOMAIN hist.committed : OnlyPat1Removed(hist.committed[b].rows, b)
        /\ \A b \in DOMAIN hist.abandoned :
              hist.abandoned[b].cause = "store_error" =>
                  OnlyPat1Removed(hist.abandoned[b].det, b)

(* The same for the batches that reached the merge: there the detections    *)
(* differ from the failure-free run by missing PatId1 rows only.            *)
C17_MergedBatchesOnlyLosePat1 ==
    NoReplay =>
        /\ Merged => OnlyPat1Removed(final_detections, batch_id)
        /\ \A b \in DOMAIN hist.committed : OnlyPat1Removed(hist.committed[b].rows, b)

(* A failed store call has removed a PatId1 detection from a batch. *)
C17_LostPat1 ==
    /\ NoReplay
    /\ Merged
    /\ faults > 0
    /\ OfPattern(final_detections, "PatId1") # OfPattern(FailureFreeDetections(batch_id), "PatId1")

Redone(m) == IF m \in DOMAIN hist.redone THEN hist.redone[m] ELSE 0

(* The rows of merchant m in the committed batches. *)
CommittedRows(m) == MerchantRowsUpTo(Cardinality(commitLog), m)

(* The increments of the call in progress, not yet committed or abandoned. *)
InProgress(m) == IF InCall THEN AppliedBy(calls, m) ELSE 0

(* C18: as long as no store call has failed, every merchant's counter is    *)
(* its value at the start of the job, plus the merchant's rows in the       *)
(* committed batches, plus the increments for the merchant that abandoned   *)
(* attempts had applied, plus those of the call in progress.  Between two   *)
(* calls the counter is thus never below start value plus committed rows,   *)
(* and above it exactly for the merchants an abandoned attempt had          *)
(* incremented.                                                             *)
C18_DoubleCountOnReplay ==
    hist.store_errors = 0 =>
        \A m \in Merchants :
            /\ Total(merchant_counts, m) =
                  Total(hist.initial, m) + CommittedRows(m) + Redone(m) + InProgress(m)
            /\ pc = "waiting" =>
                  /\ Total(merchant_counts, m) >= Total(hist.initial, m) + CommittedRows(m)
                  /\ Total(merchant_counts, m) > Total(hist.initial, m) + CommittedRows(m)
                        <=> \E b \in DOMAIN hist.abandoned :
                                /\ RowCount(hist.abandoned[b].input,
                                            MerchantRows(hist.abandoned[b].input, m)) > 0
                                /\ Redone(m) > 0

(* Both batches are committed; a batch was abandoned after its increments,  *)
(* and a merchant's counter is above its committed total by that batch's    *)
(* delta.                                                                   *)
C18_Witness ==
    /\ pc = "waiting"
    /\ commitLog = {0, 1}
    /\ hist.store_errors = 0
    /\ \E m \in Merchants, b \in DOMAIN hist.abandoned :
          /\ Redone(m) = RowCount(chunks[b + 1], MerchantRows(chunks[b + 1], m))
          /\ Redone(m) > 0
          /\ Total(merchant_counts, m) = Total(hist.initial, m) + CommittedRows(m) + Redone(m)

-----------------------------------------------------------------------------
(* The merged detection set.                                                *)

(* The detectors' outputs of the running call. *)
DetectorOutput(p) ==
    IF p = "PatId1"
    THEN pat1_detections(current_df, df_customer_importance,
                         bottom_1_percentile_weight_threshold,
                         merchant_total_txns_map)
    ELSE IF p = "PatId2" THEN pat2_detections(current_df)
    ELSE pat3_detections(current_df)

(* The call has merged and counted its detections. *)
DetectionsMerged == pc \in {"writing", "returned"} /\ file_uuid # 0

(* Every row the call hands to the writer or has written carries the two    *)
(* clock readings of the call.                                              *)
StampedByCall ==
    /\ \A u \in units :
          /\ u.YStartTime = y_start_time_ist
          /\ u.detectionTime = detection_time_ist_str
    /\ \A x \in UnitsOf(batch_id, file_uuid) :
          /\ x.YStartTime = y_start_time_ist
          /\ x.detectionTime = detection_time_ist_str
    /\ y_start_time_ist # NULL
    /\ detection_time_ist_str # NULL

(* C19: the merged detections of a call are the three detectors' outputs    *)
(* side by side: the rows of each pattern are exactly that detector's       *)
(* output, the number of rows is the number of distinct (pattern, action,   *)
(* customer, merchant) tuples, which is the sum of the three outputs'       *)
(* sizes, so no tuple appears twice and a merchant found by several         *)
(* detectors has a row for each; and all rows written by the call carry the *)
(* same YStartTime and the same detectionTime.                              *)
C19_MergedWithoutDedup ==
    /\ DetectionsMerged =>
          /\ \A p \in PatternIds :
                OfPattern(final_detections, p) = DetectorOutput(p)
          /\ num_rows = Cardinality(final_detections)
          /\ num_rows = Cardinality(DetectorOutput("PatId1"))
                          + Cardinality(DetectorOutput("PatId2"))
                          + Cardinality(DetectorOutput("PatId3"))
          /\ StampedByCall
    /\ \A x, y \in output :
          (x.batch = y.batch /\ x.token = y.token) =>
              /\ x.YStartTime = y.YStartTime
              /\ x.detectionTime = y.detectionTime

(* A call has written one row for each of the three patterns for merchant   *)
(* M1, whose pair with customer C1 has 80 rows in the chunk.                *)
C19_Witness ==
    /\ DetectionsMerged
    /\ pc = "returned"
    /\ RowCount(current_df, PairRows(current_df, "C1", "M1")) = 80
    /\ \A p \in PatternIds :
          \E d \in WrittenRows(batch_id, file_uuid) :
              d.patternId = p /\ d.MerchantId = "M1"
    /\ num_rows = 3

-----------------------------------------------------------------------------
(* Progress.                                                                *)

AllCommitted == commitLog = 0..(Len(chunks) - 1)

(* Batches are committed one at a time, each with the id following the ids  *)
(* committed before it, and no commit is taken back.                        *)
CommitInOrder ==
    /\ commitLog \subseteq commitLog'
    /\ (commitLog' \ commitLog) \subseteq {Cardinality(commitLog)}

(* The claim as stated: with finitely many crashes and failures, every      *)
(* chunk's batch is eventually committed, in increasing order of batch id.  *)
C20_EveryChunkCommitted ==
    /\ [][CommitInOrder]_vars
    /\ \A k \in 1..MaxChunks : <>(k - 1 \in commitLog)

(* C20: every chunk's batch is eventually committed, in increasing order of *)
(* batch id, unless the job stays stopped from some point on: a crash or a  *)
(* failure of a batch ends the query, and the batch is run again only when  *)
(* the job is started again.                                                *)
C20_CommittedIfRestarted ==
    /\ [][CommitInOrder]_vars
    /\ \A k \in 1..MaxChunks :
          (<>(k - 1 \in commitLog)) \/ <>[](queryState = "terminated")

(* All chunks are committed although a batch had been abandoned and the job *)
(* started again.                                                           *)
C20_Witness ==
    /\ AllCommitted
    /\ Len(chunks) = MaxChunks
    /\ faults > 0
    /\ queryState = "active"
    /\ \E b \in DOMAIN hist.invoked : hist.invoked[b] > 1

-----------------------------------------------------------------------------
(* A batch with rows and no detection.                                      *)

(* The running call has merged the detectors' outputs of a batch that has   *)
(* rows and found them empty.                                               *)
NoDetectionCall ==
    /\ InCall
    /\ ~ isEmpty(current_df)
    /\ pc \in {"write", "returned"}
    /\ final_detections = {}

CountBefore(m) == IF m \in DOMAIN hist.pre THEN hist.pre[m] ELSE 0

(* The upsert loop of the running call has gone through every merchant of   *)
(* the batch, and every increment the store accepted is in the table.       *)
IncrementsApplied ==
    /\ {calls[i].merchant : i \in 1..Len(calls)} = DOMAIN merchant_counts_in_batch(current_df)
    /\ Len(calls) = Cardinality(DOMAIN merchant_counts_in_batch(current_df))
    /\ \A i \in 1..Len(calls) :
          /\ calls[i].delta = merchant_counts_in_batch(current_df)[calls[i].merchant]
          /\ calls[i].outcome = "ok" =>
                /\ calls[i].merchant \in DOMAIN merchant_counts
                /\ merchant_counts[calls[i].merchant]
                      = CountBefore(calls[i].merchant) + calls[i].delta

NoDetectionNoUnit ==
    /\ NoDetectionCall =>
          /\ units = {}
          /\ file_uuid = 0
          /\ \A u \in output : u.token # hist.attempts
          /\ IncrementsApplied
          /\ pc = "returned" => ENABLED Commit
    /\ \A u \in output : u.rows # {}
    /\ \A b \in DOMAIN hist.committed :
          (~ isEmpty(hist.committed[b].input) /\ hist.committed[b].rows = {}) =>
              /\ b \in commitLog
              /\ hist.committed[b].token = 0

NoDetectionStep ==
    NoDetectionCall =>
        /\ output' = output
        /\ merchant_counts' = merchant_counts
        /\ (pc = "returned" /\ pc' = "waiting") =>
              /\ commitLog' = commitLog \cup {batch_id}
              /\ batch_id \in DOMAIN hist'.committed

(* C21: a call on a batch that has rows and yields no detection writes no   *)
(* part file, not even one without rows, in any of its steps; the           *)
(* increments of its upsert loop are in the counter table when it returns;  *)
(* and the batch can then be committed and its commit is recorded.          *)
C21_NoDetectionNoOutput == [] NoDetectionNoUnit /\ [][NoDetectionStep]_vars

(* A batch of 80 rows without detection was committed: no part file of the  *)
(* batch exists and the counter of its merchant has grown by 80.            *)
C21_Witness ==
    /\ pc = "waiting"
    /\ \E b \in DOMAIN hist.committed :
          /\ hist.committed[b].input = ChunkAt80
          /\ hist.committed[b].rows = {}
          /\ b \in commitLog
          /\ \A u \in output : u.batch # b
    /\ faults = 0
    /\ Cardinality(commitLog) = 1
    /\ hist.initial = CountsNear
    /\ merchant_counts["M1"] = hist.initial["M1"] + 80

-----------------------------------------------------------------------------
(* Mechanism X: the ingestion simulator.  The source rows are numbered from *)
(* 0; a chunk file is recorded with its id and the rows [start_row,         *)
(* end_row) it holds.                                                       *)

Min(a, b) == IF a < b THEN a ELSE b

(* Sizes of transactions.csv: around every multiple of CHUNK_SIZE. *)
SourceSizes ==
    {n \in 0..(MaxSourceChunks * CHUNK_SIZE) :
        n % CHUNK_SIZE \in {0, 1, CHUNK_SIZE \div 4, CHUNK_SIZE \div 2,
                            CHUNK_SIZE - 1}}

(* process_and_write_chunk: df_transactions.iloc[start_row:end_row] with    *)
(* end_row = min(start_row + CHUNK_SIZE, len(df_transactions)); the chunk   *)
(* is written, and True returned, unless it is empty.                       *)
process_and_write_chunk(len, start_row, chunk_id, files) ==
    LET end_row == Min(start_row + CHUNK_SIZE, len)
        from    == Min(start_row, len)
    IN  IF end_row > from
        THEN [processed |-> TRUE,
              files |-> Append(files, [chunk_id |-> chunk_id,
                                       start_row |-> from,
                                       end_row |-> end_row])]
        ELSE [processed |-> FALSE, files |-> files]

(* last_processed_row += CHUNK_SIZE *)
advance(row, len) == row + CHUNK_SIZE

InitIngest ==
    /\ total_rows \in SourceSizes
    /\ last_processed_row = 0
    /\ chunk_counter = 0
    /\ chunk_writes = << >>
    /\ x_pc = "while"
    /\ df_customer_importance = ImportanceA
    /\ bottom_1_percentile_weight_threshold = BottomPercentile(df_customer_importance)
    /\ top_1_percentile_weight_threshold = TopPercentile(df_customer_importance)
    /\ chunks = << >>
    /\ merchant_counts = CountsNone
    /\ offsetLog = << >>
    /\ commitLog = {}
    /\ queryState = "off"
    /\ faults = 0
    /\ pc = "off"
    /\ batch_id = 0
    /\ current_df = << >>
    /\ NoLocals
    /\ output = {}
    /\ hist = [attempts  |-> 0,
               invoked   |-> << >>,
               overrun   |-> FALSE,
               store_errors |-> 0,
               redone    |-> << >>,
               initial   |-> merchant_counts,
               pre       |-> merchant_counts,
               applied   |-> << >>,
               abandoned |-> << >>,
               committed |-> << >>]

MechanismY == << reference, merchant_counts, checkpoint, queryState, faults, pc,
                 batch_id, current_df, locals, output, hist >>

(* while last_processed_row < total_rows: chunk_counter += 1 *)
X_While ==
    /\ x_pc = "while"
    /\ IF last_processed_row < total_rows
       THEN /\ chunk_counter' = chunk_counter + 1
            /\ x_pc' = "call"
       ELSE /\ chunk_counter' = chunk_counter
            /\ x_pc' = "finished"
    /\ UNCHANGED << total_rows, last_processed_row, chunk_writes, MechanismY >>

(* processed = process_and_write_chunk(...); if processed: ... else: break *)
X_Chunk ==
    /\ x_pc = "call"
    /\ LET r == process_and_write_chunk(total_rows, last_processed_row,
                                        chunk_counter, chunk_writes)
       IN  /\ chunk_writes' = r.files
           /\ IF r.processed
              THEN /\ last_processed_row' = advance(last_processed_row, total_rows)
                   /\ x_pc' = "pause"
              ELSE /\ last_processed_row' = last_processed_row
                   /\ x_pc' = "finished"
    /\ UNCHANGED << total_rows, chunk_counter, MechanismY >>

(* if last_processed_row < total_rows: time.sleep(...) *)
X_Pause ==
    /\ x_pc = "pause"
    /\ x_pc' = IF last_processed_row < total_rows THEN "sleeping" ELSE "while"
    /\ UNCHANGED << total_rows, last_processed_row, chunk_counter, chunk_writes,
                    MechanismY >>

(* time.sleep(INVOCATION_INTERVAL_SECONDS) returns. *)
X_Wake ==
    /\ x_pc = "sleeping"
    /\ x_pc' = "while"
    /\ UNCHANGED << total_rows, last_processed_row, chunk_counter, chunk_writes,
                    MechanismY >>

NextIngest ==
    \/ X_While
    \/ X_Chunk
    \/ X_Pause
    \/ X_Wake

(* The notebook's statements run one after the other and the sleep ends. *)
SpecIngest == InitIngest /\ [][NextIngest]_vars /\ WF_vars(NextIngest)

-----------------------------------------------------------------------------
(* The chunks of Mechanism X.                                               *)

CeilDiv(a, b) == (a + b - 1) \div b

(* The chunk files are numbered 1, 2, ... in the order written, chunk i     *)
(* holds the rows [(i-1)*CHUNK_SIZE, min(i*CHUNK_SIZE, total_rows)), there  *)
(* are ceil(total_rows / CHUNK_SIZE) of them, and every source row is in    *)
(* exactly one.                                                             *)
ChunksCoverSource ==
    /\ Len(chunk_writes) = CeilDiv(total_rows, CHUNK_SIZE)
    /\ chunk_counter = Len(chunk_writes)
    /\ \A i \in 1..Len(chunk_writes) :
          /\ chunk_writes[i].chunk_id = i
          /\ chunk_writes[i].start_row = (i - 1) * CHUNK_SIZE
          /\ chunk_writes[i].end_row = Min(i * CHUNK_SIZE, total_rows)
    /\ \A r \in 0..(total_rows - 1) :
          Cardinality({i \in 1..Len(chunk_writes) :
                          /\ chunk_writes[i].start_row <= r
                          /\ r < chunk_writes[i].end_row}) = 1

(* The loop ends. *)
ChunkLoopTerminates == <>(x_pc = "finished")

(* What holds of the chunks when the loop has ended. *)
ChunksAtEnd == [](x_pc = "finished" => ChunksCoverSource)

(* What holds of the reported total: it is the number of chunks times       *)
(* CHUNK_SIZE, which is total_rows rounded up to a multiple of CHUNK_SIZE.  *)
ReportedTotalAtEnd ==
    [](x_pc = "finished" =>
          /\ last_processed_row = chunk_counter * CHUNK_SIZE
          /\ last_processed_row >= total_rows
          /\ (last_processed_row = total_rows) <=> (total_rows % CHUNK_SIZE = 0))

(* C22: the chunk loop ends for every source size, and when it has ended    *)
(* the chunks written are ceil(total_rows / CHUNK_SIZE) contiguous chunks   *)
(* numbered from 1 that hold every source row exactly once, and             *)
(* last_processed_row, the total the notebook reports, equals total_rows.   *)
C22_ChunkLoopTotal ==
    /\ ChunkLoopTerminates
    /\ [](x_pc = "finished" =>
            /\ ChunksCoverSource
            /\ last_processed_row = total_rows)

(* The loop has ended on a source of one and a half chunks: two chunks were *)
(* written and the total reported is two full chunks.                       *)
C22_Overshoot ==
    /\ x_pc = "finished"
    /\ total_rows = CHUNK_SIZE + (CHUNK_SIZE \div 2)
    /\ Len(chunk_writes) = 2
    /\ last_processed_row = 2 * CHUNK_SIZE

=============================================================================
